---- MODULE Spec2Model ----
(***************************************************************************)
(* Price-Weight-Comparison-Injector (content.js): the matching and         *)
(* idempotence engine of the unit-price content script.                    *)
(*                                                                         *)
(* Text is a sequence of one-character strings, so that the two regular    *)
(* expressions, textContent and the formatting of the annotation are       *)
(* computed as the code computes them.  Numbers are exact decimals         *)
(* [n, d]: the value n / d with d a power of ten; d = 0 is NaN.            *)
(***************************************************************************)
EXTENDS Integers, Sequences, FiniteSets, TLC

\* ------------------------------------------------------------------ text

Digits == {"0", "1", "2", "3", "4", "5", "6", "7", "8", "9"}

DigitVal(c) ==
  CASE c = "0" -> 0 [] c = "1" -> 1 [] c = "2" -> 2 [] c = "3" -> 3
    [] c = "4" -> 4 [] c = "5" -> 5 [] c = "6" -> 6 [] c = "7" -> 7
    [] c = "8" -> 8 [] c = "9" -> 9

DigitChar(v) == <<"0", "1", "2", "3", "4", "5", "6", "7", "8", "9">>[v + 1]

\* \s of the two patterns
IsSpace(c) == c \in {" ", "\t"}

\* the i flag of the two patterns: letters are compared folded to lower case
Lower(c) ==
  CASE c = "K" -> "k" [] c = "R" -> "r" [] c = "G" -> "g" [] c = "L" -> "l"
    [] c = "M" -> "m" [] c = "S" -> "s" [] c = "E" -> "e" [] c = "U" -> "u"
    [] c = "O" -> "o" [] c = "D" -> "d" [] c = "B" -> "b" [] c = "P" -> "p"
    [] OTHER -> c

\* String.prototype.toLowerCase on a unit token
toLowerCase(s) == [i \in 1..Len(s) |-> Lower(s[i])]

\* content.js:4, the alternatives of group 2 in the order the pattern lists them
PRICE_REGEX ==
  << <<"k", "r">>, <<"s", "e", "k">>, <<"e", "u", "r">>, <<"e", "u", "r", "o">>,
     <<"$">>, <<"Â", "£">>, <<"u", "s", "d">>, <<"g", "b", "p">> >>

\* content.js:7, the alternatives of group 2 in the order the pattern lists them
\* the units cut to their first letter
WEIGHT_REGEX_firstLetter == << <<"g">>, <<"k">>, <<"l">>, <<"m">> >>

WEIGHT_REGEX == << <<"g">>, <<"k", "g">>, <<"l">>, <<"m", "l">> >>

\* the end (exclusive) of the longest run of digits of s that starts at i
RECURSIVE DigitsEnd(_, _)
DigitsEnd(s, i) ==
  IF i <= Len(s) /\ s[i] \in Digits THEN DigitsEnd(s, i + 1) ELSE i

\* the end (exclusive) of the longest run of whitespace of s that starts at i
RECURSIVE SpaceEnd(_, _)
SpaceEnd(s, i) ==
  IF i <= Len(s) /\ IsSpace(s[i]) THEN SpaceEnd(s, i + 1) ELSE i

\* whether the token tok stands in s at position i, letters folded
TokenAt(s, i, tok) ==
  /\ i + Len(tok) - 1 <= Len(s)
  /\ \A k \in 1..Len(tok) : Lower(s[i + k - 1]) = tok[k]

\* the first alternative of alts (in the pattern's order) that stands at i, or 0
FirstAlt(s, i, alts) ==
  LET hits == {a \in 1..Len(alts) : TokenAt(s, i, alts[a])}
  IN IF hits = {} THEN 0 ELSE CHOOSE a \in hits : \A b \in hits : a <= b

NoMatch == [found |-> FALSE, num |-> <<>>, unit |-> <<>>]

\* (\d+[.,]\d+|\d+)\s*(alts) tried at start position i.  The quantifiers are
\* greedy, and giving a digit or a blank back never helps: what follows a
\* shortened run is a digit or a blank, which starts no separator and no unit.
MatchAt(s, i, alts) ==
  IF ~(i <= Len(s) /\ s[i] \in Digits) THEN NoMatch
  ELSE
    LET e1 == DigitsEnd(s, i)
        dec == /\ e1 + 1 <= Len(s)
               /\ s[e1] \in {".", ","}
               /\ s[e1 + 1] \in Digits
        e2 == IF dec THEN DigitsEnd(s, e1 + 1) ELSE e1
        u == SpaceEnd(s, e2)
        a == FirstAlt(s, u, alts)
    IN IF a = 0 THEN NoMatch
       ELSE [found |-> TRUE,
             num |-> SubSeq(s, i, e2 - 1),
             unit |-> SubSeq(s, u, u + Len(alts[a]) - 1)]

\* String.prototype.match without the g flag: the leftmost match
RECURSIVE MatchFrom(_, _, _)
MatchFrom(s, i, alts) ==
  IF i > Len(s) THEN NoMatch
  ELSE LET m == MatchAt(s, i, alts)
       IN IF m.found THEN m ELSE MatchFrom(s, i + 1, alts)

match(s, alts) == MatchFrom(s, 1, alts)

\* -------------------------------------------------------------- numbers

NaN == [n |-> 0, d |-> 0]

isNaN(x) == x.d = 0

\* value.replace(",", "."): the first comma only
replaceComma(s) ==
  LET commas == {i \in 1..Len(s) : s[i] = ","}
  IN IF commas = {} THEN s
     ELSE LET c == CHOOSE i \in commas : \A j \in commas : i <= j
          IN [i \in 1..Len(s) |-> IF i = c THEN "." ELSE s[i]]

\* the natural number the digit string s[i..j-1] writes (0 for the empty one)
RECURSIVE DigitsValue(_, _, _)
DigitsValue(s, i, j) ==
  IF i >= j THEN 0 ELSE DigitsValue(s, i, j - 1) * 10 + DigitVal(s[j - 1])

RECURSIVE Pow10(_)
Pow10(k) == IF k = 0 THEN 1 ELSE 10 * Pow10(k - 1)

\* parseFloat on an unsigned decimal: the longest prefix digits[.digits],
\* NaN when that prefix holds no digit
parseFloat(s) ==
  LET b == SpaceEnd(s, 1)
      e1 == DigitsEnd(s, b)
      frac == e1 <= Len(s) /\ s[e1] = "."
      e2 == IF frac THEN DigitsEnd(s, e1 + 1) ELSE e1
      k == IF frac THEN e2 - (e1 + 1) ELSE 0
  IN IF e1 = b /\ k = 0 THEN NaN
     ELSE [n |-> DigitsValue(s, b, e1) * Pow10(k)
                 + (IF frac THEN DigitsValue(s, e1 + 1, e2) ELSE 0),
           d |-> Pow10(k)]

\* content.js:17-20
cleanNumber(value) == parseFloat(replaceComma(value))

\* x > 0 as JavaScript compares: false for NaN
Positive(x) == ~isNaN(x) /\ x.n > 0

\* the decimal digits of the natural number v
RECURSIVE NatToStr(_)
NatToStr(v) ==
  IF v < 10 THEN <<DigitChar(v)>>
  ELSE NatToStr(v \div 10) \o <<DigitChar(v % 10)>>

\* Number.prototype.toFixed(2) of the non-negative quotient num / den: the
\* integer h with h / 100 nearest to it, the larger one on a tie; x / 0 is
\* Infinity and 0 / 0 is NaN, which toFixed writes by name
toFixed2(num, den) ==
  IF den = 0
  THEN (IF num = 0 THEN <<"N", "a", "N">>
        ELSE <<"I", "n", "f", "i", "n", "i", "t", "y">>)
  ELSE LET h == (200 * num + den) \div (2 * den)
       IN NatToStr(h \div 100)
          \o <<".", DigitChar((h \div 10) % 10), DigitChar(h % 10)>>

\* the calculator without the factor 1000 for g and ml
calculateAndFormatUnit_noScale(priceKr, weightValue, unit) ==
  LET lowerUnit == toLowerCase(unit)
      small == lowerUnit = <<"g">> \/ lowerUnit = <<"m", "l">>
      displayUnit ==
        IF small
        THEN (IF lowerUnit = <<"g">> THEN <<"k", "g">> ELSE <<"L">>)
        ELSE (IF lowerUnit = <<"k", "g">> THEN <<"k", "g">> ELSE <<"L">>)
  IN <<"~">> \o toFixed2(priceKr.n * weightValue.d, weightValue.n * priceKr.d)
     \o <<" ", "/", " ">> \o displayUnit

\* content.js:29-46, for a price and a weight that passed the validation
calculateAndFormatUnit(priceKr, weightValue, unit) ==
  LET lowerUnit == toLowerCase(unit)
      small == lowerUnit = <<"g">> \/ lowerUnit = <<"m", "l">>
      num == priceKr.n * weightValue.d * (IF small THEN 1000 ELSE 1)
      den == weightValue.n * priceKr.d
      displayUnit ==
        IF small
        THEN (IF lowerUnit = <<"g">> THEN <<"k", "g">> ELSE <<"L">>)
        ELSE (IF lowerUnit = <<"k", "g">> THEN <<"k", "g">> ELSE <<"L">>)
  IN <<"~">> \o toFixed2(num, den) \o <<" ", "/", " ">> \o displayUnit

\* ------------------------------------------------------------ the tree

VARIABLES
  node,               \* node id -> [kind, tag, cls, text, src]; ids are 1..Len(node)
  children,           \* node id -> its childNodes, in order
  processed,          \* the elements that carry PROCESSED_ATTR
  processingTimeout,  \* content.js:211, the handle setTimeout returned last (0: null)
  isProcessing,       \* content.js:212
  timers,             \* the handles of the timers that are set and have not fired
  observing,          \* observer.observe was called (content.js:247)
  pending,            \* the mutation records queued for the observer: added nodes
  ownPending,         \* pending holds records of the script's own insertions
  pc,                 \* "load": script not run yet, "pass": inside forEach, "idle"
  queue,              \* potentialPriceElements of the pass in progress
  idx,                \* the position in queue of the next candidate
  adds,               \* how many nodes the page has added
  passes,             \* how many passes have finished
  blocks,             \* every ProductBlock handed to processProductBlock, in order
  last,               \* what the forEach callback did for the latest candidate
  batch,              \* the latest batch the observer callback received, and its verdict
  calc                \* a call of the calculator: its arguments as matched, its result

vars ==
  <<node, children, processed, processingTimeout, isProcessing, timers, observing,
    pending, ownPending, pc, queue, idx, adds, passes, blocks, last, batch, calc>>

tree == <<node, children, processed>>

\* document.documentElement and document.body
Html == 1
Body == 2

\* parentElement of <html>, and the value of a variable that holds no element
Null == 0

Nodes == 1..Len(node)

Elem(n) == node[n].kind = "elem"

\* the reserved class of the injected span (content.js:185)
IsAnnotation(n) == Elem(n) /\ node[n].cls

\* content.js:54
ignoredTags == {"SCRIPT", "STYLE", "NOSCRIPT", "HTML", "HEAD", "META", "LINK"}

parentNode(n) ==
  IF n = Html THEN Null
  ELSE CHOOSE p \in Nodes : \E i \in 1..Len(children[p]) : children[p][i] = n

\* <html>'s parent is the document, which is no element
parentElement(n) == parentNode(n)

\* the position of n among its parent's childNodes
IndexIn(n, p) == CHOOSE i \in 1..Len(children[p]) : children[p][i] = n

RECURSIVE Subtree(_)
RECURSIVE SubtreeAll(_)
\* n and its descendants in document order
Subtree(n) == <<n>> \o SubtreeAll(children[n])
SubtreeAll(ns) ==
  IF ns = <<>> THEN <<>> ELSE Subtree(Head(ns)) \o SubtreeAll(Tail(ns))

\* n.querySelectorAll("*"): the descendant elements of n in document order
querySelectorAll(n) == SelectSeq(Tail(Subtree(n)), Elem)

\* document.querySelectorAll("*")
allElements == SelectSeq(Subtree(Html), Elem)

\* el.children: the child elements
childElements(n) == SelectSeq(children[n], Elem)

RECURSIVE textContent(_)
RECURSIVE textOfAll(_)
\* an element's own text stands for a text node that is its first child
textContent(n) == node[n].text \o textOfAll(children[n])
textOfAll(ns) ==
  IF ns = <<>> THEN <<>> ELSE textContent(Head(ns)) \o textOfAll(Tail(ns))

Range(s) == {s[i] : i \in 1..Len(s)}

\* elPrice.nextElementSibling, or Null
nextElementSibling(n) ==
  LET p == parentNode(n)
      after == SelectSeq(SubSeq(children[p], IndexIn(n, p) + 1, Len(children[p])), Elem)
  IN IF after = <<>> THEN Null ELSE Head(after)

\* the marker is never seen
hasAttribute_never(n) == FALSE

hasAttribute(n) == n \in processed

\* setting the marker on n takes it off every other element
setAttribute_only(attrs, n) == {n}

\* setAttribute(PROCESSED_ATTR, 'true') on the set of marked elements
setAttribute(attrs, n) == attrs \cup {n}

\* new becomes the last child of ref's parent
InsertAfter_atEnd(kids, ref, new) ==
  [kids EXCEPT ![parentNode(ref)] = Append(@, new)]

\* parent.insertBefore(new, ref.nextSibling): new becomes the node right after ref
InsertAfter(kids, ref, new) ==
  LET p == parentNode(ref)
      i == IndexIn(ref, p)
  IN [kids EXCEPT ![p] = SubSeq(@, 1, i) \o <<new>> \o SubSeq(@, i + 1, Len(@))]

\* ----------------------------------------------------------- the scanner

\* the children are not tested
hasChildWithPrice_never(el) == FALSE

\* content.js:77-79
hasChildWithPrice(el) ==
  \E c \in Range(childElements(el)) : match(textContent(c), PRICE_REGEX).found

\* the filter of content.js:58-81
isCandidate(el) ==
  /\ node[el].tag \notin ignoredTags
  /\ ~node[el].cls
  /\ el # Body /\ el # Html
  /\ match(textContent(el), PRICE_REGEX).found
  /\ ~hasChildWithPrice(el)

\* content.js:57-81, in document order
potentialPriceElements == SelectSeq(allElements, isCandidate)

\* ---------------------------------------------------------- the resolver

\* one level more
WalkBound_oneMore == 8 + 1

\* content.js:98, the number of levels the walk examines
WalkBound == 8

MatchesWeight(el) == match(textContent(el), WEIGHT_REGEX).found

\* the matches in reverse document order
weightMatches_lastFirst(c) ==
  LET wm == SelectSeq(querySelectorAll(c), MatchesWeight)
  IN [i \in 1..Len(wm) |-> wm[Len(wm) + 1 - i]]

\* content.js:105-107
weightMatches(c) == SelectSeq(querySelectorAll(c), MatchesWeight)

\* the validation without the test of the weight's sign
isValidPair_noWeightCheck(priceKr, weightValue) ==
  /\ ~isNaN(priceKr)
  /\ ~isNaN(weightValue)
  /\ Positive(priceKr)

\* the validation without the test of the price's sign
isValidPair_noPriceCheck(priceKr, weightValue) ==
  /\ ~isNaN(priceKr)
  /\ ~isNaN(weightValue)
  /\ Positive(weightValue)

\* content.js:123-128
isValidPair(priceKr, weightValue) ==
  /\ ~isNaN(priceKr)
  /\ ~isNaN(weightValue)
  /\ Positive(priceKr)
  /\ Positive(weightValue)

NoData ==
  [kind |-> "none", container |-> Null, elPrice |-> Null, priceKr |-> NaN,
   weightValue |-> NaN, weightUnit |-> <<>>, level |-> 0]

\* content.js:109-138, one level of the walk: bestMatchData, or NoData
tryLevel(elPrice, currentContainer, i) ==
  LET wm == weightMatches(currentContainer)
  IN IF wm = <<>> THEN NoData
     ELSE
       LET weightElement == wm[1]
           priceMatch == match(textContent(elPrice), PRICE_REGEX)
           weightMatch == match(textContent(weightElement), WEIGHT_REGEX)
           priceKr == cleanNumber(priceMatch.num)
           weightValue == cleanNumber(weightMatch.num)
       IN IF priceMatch.found /\ weightMatch.found /\ isValidPair(priceKr, weightValue)
          THEN [kind |-> "found", container |-> currentContainer, elPrice |-> elPrice,
                priceKr |-> priceKr, weightValue |-> weightValue,
                weightUnit |-> weightMatch.unit, level |-> i]
          ELSE NoData

\* the loop when a processed level is passed over instead of ending the walk
RECURSIVE walk_skipMarked(_, _, _)
walk_skipMarked(elPrice, currentContainer, i) ==
  IF ~(i < WalkBound /\ currentContainer # Null) THEN NoData
  ELSE LET here == IF hasAttribute(currentContainer) THEN NoData
                   ELSE tryLevel(elPrice, currentContainer, i)
       IN IF here.kind = "found" THEN here
          ELSE walk_skipMarked(elPrice, parentElement(currentContainer), i + 1)

\* content.js:98-141, the loop from level i on: "found" with bestMatchData,
\* "aborted" at a processed level (the return of line 101), or "none"
RECURSIVE walk(_, _, _)
walk(elPrice, currentContainer, i) ==
  IF ~(i < WalkBound /\ currentContainer # Null) THEN NoData
  ELSE IF hasAttribute(currentContainer)
  THEN [NoData EXCEPT !.kind = "aborted", !.container = currentContainer,
                      !.elPrice = elPrice, !.level = i]
  ELSE LET here == tryLevel(elPrice, currentContainer, i)
       IN IF here.kind = "found" THEN here
          ELSE walk(elPrice, parentElement(currentContainer), i + 1)

\* content.js:86-141 for one candidate
resolve(elPrice) ==
  IF hasAttribute(elPrice)
  THEN [NoData EXCEPT !.kind = "skipped", !.elPrice = elPrice]
  ELSE walk(elPrice, elPrice, 0)

\* content.js:143-146: the block is handed to processProductBlock
handsOver(data) == data.kind = "found" /\ ~hasAttribute(data.container)

\* the container is left unmarked
markContainer_skip(attrs, data) == attrs

\* content.js:147
markContainer(attrs, data) == setAttribute(attrs, data.container)

\* ---------------------------------------------------------- the injector

\* the price element keeps no marker
markPrice_skip(attrs, data) == attrs

\* content.js:162
markPrice(attrs, data) == setAttribute(attrs, data.elPrice)

\* the elements newly marked by content.js:147, and after it by content.js:162
markedInTurn(attrs, data) ==
  LET first == markContainer(attrs, data)
      second == markPrice(first, data)
  IN <<first \ attrs, second \ first>>

\* content.js:165, the price element is too high in the tree
tooHigh(elPrice) ==
  parentNode(elPrice) = Null \/ elPrice = Html \/ elPrice = Body

\* content.js:171-174, an annotation already follows the price element
alreadyAppended(elPrice) ==
  LET nextSibling == nextElementSibling(elPrice)
  IN nextSibling # Null /\ node[nextSibling].cls

\* content.js:165-174: processProductBlock reaches the insertion
inserts(data) == ~tooHigh(data.elPrice) /\ ~alreadyAppended(data.elPrice)

\* the span without the reserved class
unitPriceSpan_noClass(data) ==
  [kind |-> "elem", tag |-> "SPAN", cls |-> FALSE,
   text |-> <<"-", " ">>
            \o calculateAndFormatUnit(data.priceKr, data.weightValue, data.weightUnit),
   src |-> data.elPrice]

\* content.js:184-191, the span; src remembers the price element it was made for
unitPriceSpan(data) ==
  [kind |-> "elem", tag |-> "SPAN", cls |-> TRUE,
   text |-> <<"-", " ">>
            \o calculateAndFormatUnit(data.priceKr, data.weightValue, data.weightUnit),
   src |-> data.elPrice]

\* ------------------------------------------------------------ the pages

\* the page adds at most this many nodes
MaxAdds == 2

t_5kr == <<"5", " ", "k", "r">>
t_7kr == <<"7", " ", "k", "r">>
t_0kr == <<"0", " ", "k", "r">>
t_5kr0 == <<"5", " ", "k", "r", " ", "0">>
t_2kg == <<"2", " ", "k", "g">>
t_500g == <<"5", "0", "0", " ", "g">>
t_0g == <<"0", " ", "g">>
t_g == <<"g">>
t_note == <<"n", "e", "w">>
t_copy == <<"-", " ", "~", "2", ".", "5", "0", " ", "/", " ", "k", "g">>

t_3lemons == <<"3", " ", "l", "e", "m", "o", "n", "s">>
t_500grams == <<"5", "0", "0", " ", "g", "r", "a", "m", "s">>
t_500gTight == <<"5", "0", "0", "g">>
t_5kronor == <<"5", " ", "k", "r", "o", "n", "o", "r">>

El(p, tag, t) == [p |-> p, kind |-> "elem", tag |-> tag, cls |-> FALSE, text |-> t]
Tx(p, t) == [p |-> p, kind |-> "text", tag |-> "#text", cls |-> FALSE, text |-> t]

\* a product card: a price and a weight side by side
PageCard(tp, tw) == <<El(2, "DIV", <<>>), El(3, "SPAN", tp), El(3, "SPAN", tw)>>

\* two prices that share one card
PageTwoPrices ==
  <<El(2, "DIV", <<>>), El(3, "SPAN", t_5kr), El(3, "SPAN", t_7kr), El(3, "SPAN", t_2kg)>>

\* the card's own weight is 0; a valid weight stands outside the card
PageOuterWeight ==
  <<El(2, "SPAN", t_500g), El(2, "DIV", <<>>), El(4, "SPAN", t_5kr), El(4, "SPAN", t_0g)>>

\* a price with no weight anywhere
PageNoWeight == <<El(2, "DIV", <<>>), El(3, "SPAN", t_5kr)>>

\* a price inside an element that has a price text of its own
PageNested == <<El(2, "DIV", t_7kr), El(3, "SPAN", t_5kr), El(3, "SPAN", t_2kg)>>

\* <div><span>7 kr</span><div><span>5 kr 0</span>g<span>2 kg</span></div></div>
PageStraddle ==
  <<El(2, "DIV", <<>>), El(3, "SPAN", t_7kr), El(3, "DIV", <<>>),
    El(5, "SPAN", t_5kr0), Tx(5, t_g), El(5, "SPAN", t_2kg)>>

\* a price under a chain of depth blocks below <body>; another price and a
\* weight stand in <body>, which the first pass therefore marks
PageDeepMarked(depth) ==
  <<El(2, "SPAN", t_7kr), El(2, "SPAN", t_2kg), El(2, "DIV", <<>>)>>
  \o [i \in 1..(depth - 1) |-> El(4 + i, "DIV", <<>>)]
  \o <<El(4 + depth, "SPAN", t_5kr)>>

\* a price under a chain of depth blocks below <body>; the only weight is a
\* child of <body>
PageDeepWeight(depth) ==
  <<El(2, "DIV", <<>>)>>
  \o [i \in 1..(depth - 1) |-> El(2 + i, "DIV", <<>>)]
  \o <<El(2 + depth, "SPAN", t_5kr), El(2, "SPAN", t_2kg)>>

\* cards whose unit or currency token begins a longer word, or follows the
\* number without whitespace
WordPages ==
  {PageCard(t_5kr, t_3lemons), PageCard(t_5kr, t_500grams), PageCard(t_5kr, t_500gTight),
   PageCard(t_5kronor, t_2kg)}

\* chains that put <body> at the last level of the walk and one level beyond
DeepPages == {PageDeepMarked(6), PageDeepMarked(7), PageDeepWeight(6), PageDeepWeight(7)}

Pages ==
  {PageCard(t_5kr, t_500g), PageCard(t_5kr, t_0g), PageCard(t_0kr, t_2kg)}
  \cup {PageTwoPrices, PageOuterWeight, PageNoWeight, PageNested, PageStraddle}

PageNodes(desc) ==
  << [kind |-> "elem", tag |-> "HTML", cls |-> FALSE, text |-> <<>>, src |-> Null],
     [kind |-> "elem", tag |-> "BODY", cls |-> FALSE, text |-> <<>>, src |-> Null] >>
  \o [i \in 1..Len(desc) |->
        [kind |-> desc[i].kind, tag |-> desc[i].tag, cls |-> desc[i].cls,
         text |-> desc[i].text, src |-> Null]]

PageChildren(desc) ==
  [n \in 1..(Len(desc) + 2) |->
     IF n = Html THEN <<Body>>
     ELSE LET ChildOfN(m) == desc[m - 2].p = n
          IN SelectSeq([i \in 1..Len(desc) |-> i + 2], ChildOfN)]

\* what the page may add: a price, a weight, a copy of an annotation, an empty
\* block, a text node
Templates ==
  { [kind |-> "elem", tag |-> "SPAN", cls |-> FALSE, text |-> t_7kr, src |-> Null],
    [kind |-> "elem", tag |-> "SPAN", cls |-> FALSE, text |-> t_2kg, src |-> Null],
    [kind |-> "elem", tag |-> "SPAN", cls |-> TRUE, text |-> t_copy, src |-> Null],
    [kind |-> "elem", tag |-> "DIV", cls |-> FALSE, text |-> <<>>, src |-> Null],
    [kind |-> "text", tag |-> "#text", cls |-> FALSE, text |-> t_note, src |-> Null] }

NoLast ==
  [el |-> Null, kind |-> "none", container |-> Null, level |-> 0, inserted |-> FALSE,
   failed |-> FALSE, marked |-> <<>>]
NoBatch == [nodes |-> <<>>, self |-> FALSE]
NoCalc == [price |-> <<>>, weight |-> <<>>, unit |-> <<>>, out |-> <<>>]

\* the page desc is loaded and the content script has not run yet
Start(desc) ==
  /\ node = PageNodes(desc)
  /\ children = PageChildren(desc)
  /\ processed = {}
  /\ processingTimeout = 0
  /\ isProcessing = FALSE
  /\ timers = {}
  /\ observing = FALSE
  /\ pending = <<>>
  /\ ownPending = FALSE
  /\ pc = "load"
  /\ queue = <<>>
  /\ idx = 1
  /\ adds = 0
  /\ passes = 0
  /\ blocks = <<>>
  /\ last = NoLast
  /\ batch = NoBatch

Init == calc = NoCalc /\ \E desc \in Pages : Start(desc)

\* ---------------------------------------------------------- the actions

\* where the page adds a node: after the last child of a block, or right after
\* an element whose own text holds a price (0: as the first child)
Places ==
  {[parent |-> b, after |-> IF children[b] = <<>> THEN Null ELSE children[b][Len(children[b])]] :
     b \in {n \in Nodes : Elem(n) /\ node[n].tag \in {"BODY", "DIV"}}}
  \cup {[parent |-> parentNode(e), after |-> e] :
          e \in {n \in Nodes \ {Html, Body} :
                   Elem(n) /\ ~node[n].cls /\ match(node[n].text, PRICE_REGEX).found}}

\* kids with the node new put into parent right after the child after
AddChild(kids, place, new) ==
  LET i == IF place.after = Null THEN 0 ELSE IndexIn(place.after, place.parent)
  IN Append([kids EXCEPT ![place.parent] =
               SubSeq(@, 1, i) \o <<new>> \o SubSeq(@, i + 1, Len(@))],
            <<>>)

\* the page adds one node tpl at a place; the observer, once registered on
\* <body>, gets a record of it
AddNode ==
  /\ adds < MaxAdds
  /\ \E place \in Places, tpl \in Templates :
       /\ node' = Append(node, tpl)
       /\ children' = AddChild(children, place, Len(node) + 1)
       /\ pending' = IF observing THEN Append(pending, Len(node) + 1) ELSE pending
  /\ adds' = adds + 1
  /\ UNCHANGED <<processed, processingTimeout, isProcessing, timers, observing,
                 ownPending, pc, queue, idx, passes, blocks, last, batch, calc>>

\* the page builds its content before the script runs
PageLoad == pc = "load" /\ AddNode

\* a script of the page adds a node in a task of its own, between the tasks of
\* the content script and after the records of the latter were delivered
ExternalAdd == pc = "idle" /\ ~ownPending /\ AddNode

\* content.js:244 and 52-83: the initial run starts, before the observer exists
InitialRun ==
  /\ pc = "load"
  /\ pc' = "pass"
  /\ queue' = potentialPriceElements
  /\ idx' = 1
  /\ UNCHANGED <<node, children, processed, processingTimeout, isProcessing, timers,
                 observing, pending, ownPending, adds, passes, blocks, last, batch, calc>>

\* content.js:86-151 with processProductBlock (158-200): the forEach callback
\* for the next candidate; ok: insertBefore returns (content.js:195), ~ok: it
\* throws and the catch of content.js:197-199 takes over
Callback(ok) ==
  /\ pc = "pass"
  /\ idx <= Len(queue)
  /\ \E data \in {resolve(queue[idx])} :
     LET elPrice == queue[idx]
         hands == handsOver(data)
         tries == hands /\ inserts(data)
         ins == tries /\ ok
         span == Len(node) + 1
     IN /\ (ok \/ tries)
        /\ processed' = IF hands THEN markPrice(markContainer(processed, data), data)
                        ELSE processed
        /\ node' = IF ins THEN Append(node, unitPriceSpan(data)) ELSE node
        /\ children' = IF ins THEN Append(InsertAfter(children, elPrice, span), <<>>)
                       ELSE children
        /\ pending' = IF ins /\ observing THEN Append(pending, span) ELSE pending
        /\ ownPending' = (ownPending \/ (ins /\ observing))
        /\ blocks' = IF hands THEN Append(blocks, data) ELSE blocks
        /\ last' = [el |-> elPrice, kind |-> data.kind, container |-> data.container,
                    level |-> data.level, inserted |-> ins, failed |-> tries /\ ~ok,
                    marked |-> IF hands THEN markedInTurn(processed, data) ELSE <<>>]
  /\ idx' = idx + 1
  /\ UNCHANGED <<processingTimeout, isProcessing, timers, observing, pc, queue, adds,
                 passes, batch, calc>>

\* the callback when every insertion succeeds
ProcessCandidate == pc = "pass" /\ Callback(TRUE)

\* the callback reaches the insertion and insertBefore throws
InsertionFails == pc = "pass" /\ Callback(FALSE)

\* the pass returns and the flag is left as it is
PassEnd_keepFlag ==
  /\ pc = "pass"
  /\ idx > Len(queue)
  /\ pc' = "idle"
  /\ observing' = TRUE
  /\ passes' = passes + 1
  /\ UNCHANGED <<node, children, processed, processingTimeout, isProcessing, timers,
                 pending, ownPending, queue, idx, adds, blocks, last, batch, calc>>

\* the pass returns: content.js:221 after a timer's pass, content.js:247 after
\* the initial run
PassEnd ==
  /\ pc = "pass"
  /\ idx > Len(queue)
  /\ pc' = "idle"
  /\ isProcessing' = FALSE
  /\ observing' = TRUE
  /\ passes' = passes + 1
  /\ UNCHANGED <<node, children, processed, processingTimeout, timers, pending,
                 ownPending, queue, idx, adds, blocks, last, batch, calc>>

\* no batch counts as the script's own
hasSelfMutation_never(mutations) == FALSE

\* a batch counts as the script's own only when every added node is an
\* annotation element or an element that contains one
hasSelfMutation_every(mutations) ==
  \A i \in 1..Len(mutations) :
    LET n == mutations[i]
    IN /\ node[n].kind = "elem"
       /\ \/ node[n].cls
          \/ \E d \in Range(querySelectorAll(n)) : node[d].cls

\* content.js:228-236 on a batch of records, each with one added node
hasSelfMutation(mutations) ==
  \E i \in 1..Len(mutations) :
    LET n == mutations[i]
    IN /\ node[n].kind = "elem"
       /\ \/ node[n].cls
          \/ \E d \in Range(querySelectorAll(n)) : node[d].cls

\* the timer is left pending
clearTimeout_noop(ts, h) == ts

\* content.js:216, on the set of pending timers; clearing a handle that is
\* null or has fired does nothing
clearTimeout(ts, h) == ts \ {h}

\* content.js:226-241 with startProcessing (214-224): the observer's callback
\* gets the queued records
Deliver ==
  /\ pc = "idle"
  /\ pending # <<>>
  /\ LET self == hasSelfMutation(pending)
     IN /\ batch' = [nodes |-> pending, self |-> self]
        /\ IF self
           THEN UNCHANGED <<processingTimeout, timers>>
           ELSE /\ processingTimeout' = processingTimeout + 1
                /\ timers' = clearTimeout(timers, processingTimeout)
                                \cup {processingTimeout + 1}
  /\ pending' = <<>>
  /\ ownPending' = FALSE
  /\ UNCHANGED <<node, children, processed, isProcessing, observing, pc, queue, idx,
                 adds, passes, blocks, last, calc>>

\* content.js:217-223: a timer fires, after the queued records were delivered
TimerFire ==
  /\ pc = "idle"
  /\ pending = <<>>
  /\ \E h \in timers :
       /\ timers' = timers \ {h}
       /\ IF ~isProcessing
          THEN /\ isProcessing' = TRUE
               /\ pc' = "pass"
               /\ queue' = potentialPriceElements
               /\ idx' = 1
          ELSE UNCHANGED <<isProcessing, pc, queue, idx>>
  /\ UNCHANGED <<node, children, processed, processingTimeout, observing, pending,
                 ownPending, adds, passes, blocks, last, batch, calc>>

Next == ExternalAdd \/ InitialRun \/ ProcessCandidate \/ PassEnd \/ Deliver \/ TimerFire

Spec == Init /\ [][Next]_vars

\* the browser runs the script on load, runs every callback to its end,
\* delivers queued records and fires every timer that stays set; the page is
\* free to add nodes or not.  The forEach callback returns (its loop has at
\* most WalkBound rounds), so a pass does not stay at one candidate for ever:
\* only ProcessCandidate leaves such a state, which makes the second conjunct
\* say what WF_vars(ProcessCandidate) says.
Fairness ==
  /\ WF_vars(InitialRun)
  /\ []<>~(pc = "pass" /\ idx <= Len(queue))
  /\ WF_vars(PassEnd)
  /\ WF_vars(Deliver)
  /\ WF_vars(TimerFire)

SpecLive == Init /\ [][Next]_vars /\ Fairness

\* the script when an insertion can fail
NextFail == Next \/ InsertionFails

SpecFail == Init /\ [][NextFail]_vars

\* findAndProcessPrices is called again (initializeProcessor, content.js:205-207)
\* on the tree the pass before left
MaxCalls == 2

Rerun ==
  /\ pc = "idle"
  /\ passes < MaxCalls
  /\ pc' = "pass"
  /\ queue' = potentialPriceElements
  /\ idx' = 1
  /\ UNCHANGED <<node, children, processed, processingTimeout, isProcessing, timers,
                 observing, pending, ownPending, adds, passes, blocks, last, batch, calc>>

NextPass == PageLoad \/ InitialRun \/ ProcessCandidate \/ PassEnd \/ Rerun

\* passes called one after the other on a page that does not change meanwhile
SpecPass == Init /\ [][NextPass]_vars

\* passes over the deep pages
InitDeep == calc = NoCalc /\ \E desc \in DeepPages : Start(desc)

SpecDeep == InitDeep /\ [][NextPass]_vars

\* passes over the cards with longer words
InitWords == calc = NoCalc /\ \E desc \in WordPages : Start(desc)

SpecWords == InitWords /\ [][NextPass]_vars

\* ------------------------------------------------------- the calculator

\* the numeric literals and unit tokens the calculator is called with
CalcPrices ==
  { <<"9", "9">>, <<"3", "6">>, <<"2", "0">>, <<"1", "5", ",", "5">>, <<"5">>,
    <<"0", ".", "5">>, <<"1">> }
CalcWeights ==
  { <<"5", "0", "0">>, <<"8", "0", "0">>, <<"2">>, <<"2", "5", "0">>, <<"3">>,
    <<"1", ",", "5">> }
CalcUnits ==
  { <<"g">>, <<"k", "g">>, <<"l">>, <<"m", "l">>, <<"G">>, <<"K", "g">>, <<"L">>,
    <<"M", "L">> }

InitCalc ==
  /\ Start(<<>>)
  /\ calc \in [price : CalcPrices, weight : CalcWeights, unit : CalcUnits, out : {<<>>}]

\* content.js:119-121 and 177-181: the literals are cleaned and the unit price
\* is formatted
Calculate ==
  /\ calc.price # <<>>
  /\ calc.out = <<>>
  /\ calc' = [calc EXCEPT !.out = calculateAndFormatUnit(cleanNumber(calc.price),
                                                         cleanNumber(calc.weight),
                                                         calc.unit)]
  /\ UNCHANGED <<node, children, processed, processingTimeout, isProcessing, timers,
                 observing, pending, ownPending, pc, queue, idx, adds, passes, blocks,
                 last, batch>>

NextCalc == Calculate

\* the calculator alone, on every triple of the three sets above
SpecCalc == InitCalc /\ [][NextCalc]_vars

\* ----------------------------------------------------------- the claims

\* the k-th parentElement of el (el itself for k = 0), Null beyond <html>
RECURSIVE Anc(_, _)
Anc(el, k) ==
  IF el = Null \/ k = 0 THEN el ELSE Anc(parentElement(el), k - 1)

\* the levels the walk of el can examine
Levels(el) == {k \in 0..(WalkBound - 1) : Anc(el, k) # Null}

\* s holds a numeric literal, optional whitespace and one of the tokens of units
PatternIn(s, units) ==
  \E i \in 1..Len(s) :
    /\ s[i] \in Digits
    /\ \E k \in (i + 1)..Len(s) :
         /\ \A j \in (i + 1)..(k - 1) : IsSpace(s[j])
         /\ \E u \in units :
              /\ k + Len(u) - 1 <= Len(s)
              /\ \A x \in 1..Len(u) : Lower(s[k + x - 1]) = u[x]

WeightUnits == { <<"g">>, <<"k", "g">>, <<"l">>, <<"m", "l">> }
PriceUnits ==
  { <<"k", "r">>, <<"s", "e", "k">>, <<"e", "u", "r">>, <<"e", "u", "r", "o">>, <<"$">>,
    <<"Â", "£">>, <<"u", "s", "d">>, <<"g", "b", "p">> }

\* the annotations the script inserted for the price element e
AnnotationsOf(e) == {a \in Nodes : node[a].src = e}

\* the first annotation the script inserted for e (0: none)
AnnotationsOfMin(e) ==
  IF AnnotationsOf(e) = {} THEN Null
  ELSE CHOOSE a \in AnnotationsOf(e) : \A x \in AnnotationsOf(e) : a <= x

\* the forEach callback runs for the candidate queue[idx]
AtCandidate == pc = "pass" /\ idx <= Len(queue)

\* the observer's callback runs on the queued records
AtDelivery == pc = "idle" /\ pending # <<>> /\ pending' = <<>>

\* startProcessing ran: a new timer is set, and it is the only one
TimerStarted ==
  /\ processingTimeout' # processingTimeout
  /\ processingTimeout' \in timers'

\* C1: a pass that is run again on the tree the pass before left, with no change
\* by the page in between, inserts no annotation and sets no marker: once a
\* pass has finished, the tree stays as it is.
C1_SecondPassChangesNothing == [][passes >= 1 => UNCHANGED tree]_vars

\* C2: over all passes and all additions by the page, the script inserts at
\* most one annotation for each price element.
C2_AppendOnce == \A e \in Nodes : Cardinality(AnnotationsOf(e)) <= 1

\* C2's case: a later pass came back to an annotated price element whose
\* annotation the page has meanwhile separated from it, and skipped it
C2_Witness ==
  \E a \in Nodes :
    /\ node[a].src # Null
    /\ nextElementSibling(node[a].src) # a
    /\ last.el = node[a].src
    /\ last.kind = "skipped"

\* C3: a batch whose added nodes are all annotation elements neither starts
\* nor restarts the debounce timer.
C3_SelfMutationExcluded ==
  [][(AtDelivery /\ \A i \in 1..Len(pending) : IsAnnotation(pending[i]))
       => UNCHANGED <<processingTimeout, timers>>]_vars

\* C3's case: the records of the script's own insertion were delivered
C3_Witness ==
  /\ batch.nodes # <<>>
  /\ \A i \in 1..Len(batch.nodes) :
       IsAnnotation(batch.nodes[i]) /\ node[batch.nodes[i]].src # Null
  /\ passes >= 2

\* an element that holds nothing but annotation elements
OnlyAnnotations(n) ==
  /\ Elem(n)
  /\ node[n].text = <<>>
  /\ children[n] # <<>>
  /\ \A i \in 1..Len(children[n]) : IsAnnotation(children[n][i])

\* an added node that is unrelated content
Unrelated(n) == ~IsAnnotation(n) /\ ~OnlyAnnotations(n)

\* an added node that is an annotation element or an element that contains one
IsOrHoldsAnnotation(n) ==
  Elem(n) /\ \E d \in Range(Subtree(n)) : IsAnnotation(d)

\* C4 as stated: a batch with at least one unrelated added node schedules a
\* pass, whatever else the batch adds.
C4_MixedBatchSchedules ==
  [][(AtDelivery /\ \E i \in 1..Len(pending) : Unrelated(pending[i]))
       => TimerStarted]_vars

\* C4 as amended: a batch schedules a pass exactly when none of its added
\* elements is an annotation element or contains one; with such an element
\* among the added nodes the batch is suppressed, unrelated content or not.
C4_AnyAnnotationSuppresses ==
  [][AtDelivery =>
       IF \E i \in 1..Len(pending) : IsOrHoldsAnnotation(pending[i])
       THEN UNCHANGED <<processingTimeout, timers>>
       ELSE TimerStarted]_vars

\* C4's case: a batch that mixed an annotation with unrelated content was
\* delivered, and suppressed
C4_Witness ==
  /\ pending = <<>>
  /\ batch.self
  /\ \E i \in 1..Len(batch.nodes) : IsAnnotation(batch.nodes[i])
  /\ \E i \in 1..Len(batch.nodes) :
       Elem(batch.nodes[i]) /\ ~IsOrHoldsAnnotation(batch.nodes[i])
  /\ timers = {}

\* C5: no element is the container of two ProductBlocks handed to the
\* injector; a candidate whose walk stopped at a processed element got no
\* marker and no annotation.
C5_OneBlockPerContainer ==
  /\ \A i, j \in 1..Len(blocks) :
       i # j => blocks[i].container # blocks[j].container
  /\ last.kind = "aborted" =>
       /\ last.el \notin processed
       /\ AnnotationsOf(last.el) = {}
       /\ \A i \in 1..Len(blocks) : blocks[i].elPrice # last.el

\* C5's case: in one pass, a second candidate reached the container that the
\* first candidate had just marked
C5_Witness ==
  /\ pc = "pass"
  /\ passes = 0
  /\ last.kind = "aborted"
  /\ last.level >= 1
  /\ \E i \in 1..Len(blocks) :
       /\ blocks[i].container = last.container
       /\ blocks[i].elPrice # last.el
       /\ AnnotationsOf(blocks[i].elPrice) # {}

\* C6: an element that carries the marker is not the container of any later
\* ProductBlock; a candidate whose walk meets a marked element before a level
\* validates changes nothing, whatever the levels above would give.
C6_ProcessedClosed ==
  [][/\ blocks' # blocks => blocks'[Len(blocks')].container \notin processed
     /\ (/\ AtCandidate
         /\ queue[idx] \notin processed
         /\ \E k \in Levels(queue[idx]) :
              /\ Anc(queue[idx], k) \in processed
              /\ \A j \in 0..(k - 1) :
                   /\ Anc(queue[idx], j) \notin processed
                   /\ tryLevel(queue[idx], Anc(queue[idx], j), j).kind # "found")
        => UNCHANGED <<tree, blocks>>]_vars

\* C6's case: a price the page added inside a container that was marked
\* before was abandoned there, though the level above is unmarked and validates
C6_Witness ==
  /\ last.kind = "aborted"
  /\ last.level >= 1
  /\ \E a \in Nodes : node[a].src # Null /\ a < last.el
  /\ parentElement(last.container) # Null
  /\ parentElement(last.container) \notin processed
  /\ tryLevel(last.el, parentElement(last.container), last.level + 1).kind = "found"

\* C7: every ProductBlock, and so every annotation, comes from a price and a
\* weight that are both numbers greater than 0.
C7_ValidationGuard ==
  /\ \A i \in 1..Len(blocks) :
       /\ blocks[i].priceKr.d > 0 /\ blocks[i].priceKr.n > 0
       /\ blocks[i].weightValue.d > 0 /\ blocks[i].weightValue.n > 0
  /\ \A a \in Nodes :
       node[a].src # Null => \E i \in 1..Len(blocks) : blocks[i].elPrice = node[a].src

\* C7's case: the level next to the price had a weight of 0 as its first match
\* and gave no block; the block was built at a level above
C7_Witness ==
  \E i \in 1..Len(blocks) :
    LET low == weightMatches(parentElement(blocks[i].elPrice))
    IN /\ blocks[i].level >= 2
       /\ AnnotationsOf(blocks[i].elPrice) # {}
       /\ low # <<>>
       /\ cleanNumber(match(textContent(low[1]), WEIGHT_REGEX).num).n = 0

\* no level the walk of el can examine has a descendant with a weight text
NoWeightInReach(el) ==
  \A k \in Levels(el) :
    \A d \in Range(querySelectorAll(Anc(el, k))) :
      ~PatternIn(textContent(d), WeightUnits)

\* C8: for a candidate with no weight text at any level of its walk the
\* callback changes nothing, and the pass goes on with the next candidate.
C8_BoundedWalk ==
  [][(AtCandidate /\ NoWeightInReach(queue[idx]))
       => /\ UNCHANGED <<tree, blocks, queue>>
          /\ pc' = "pass"
          /\ idx' = idx + 1]_vars

\* C8's case: the first of two candidates had no weight in reach; it is left
\* as it was and the second candidate has been dealt with too
C8_Witness ==
  /\ pc = "pass"
  /\ Len(queue) >= 2
  /\ idx > 2
  /\ last.el = queue[2]
  /\ NoWeightInReach(queue[1])
  /\ queue[1] \notin processed
  /\ AnnotationsOf(queue[1]) = {}

\* the candidates when every descendant element is tested, not only the children
LeafCandidate(el) ==
  /\ node[el].tag \notin ignoredTags
  /\ ~node[el].cls
  /\ el \notin {Body, Html}
  /\ PatternIn(textContent(el), PriceUnits)
  /\ \A d \in Range(querySelectorAll(el)) : ~PatternIn(textContent(d), PriceUnits)

\* C9: right after the scan, no candidate has a descendant element whose text
\* holds a price, and the candidates are the ones a test of all descendants gives.
C9_LeafPreference ==
  (pc = "pass" /\ idx = 1) =>
    /\ \A i \in 1..Len(queue) :
         \A d \in Range(querySelectorAll(queue[i])) :
           ~PatternIn(textContent(d), PriceUnits)
    /\ queue = SelectSeq(allElements, LeafCandidate)

\* C9's case: an element with a price text of its own and a child with a price
\* text; the child is a candidate and the element is not
C9_Witness ==
  /\ pc = "pass"
  /\ idx = 1
  /\ \E i \in 1..Len(queue) :
       LET up == parentElement(queue[i])
       IN /\ PatternIn(node[up].text, PriceUnits)
          /\ up \notin {Body, Html}
          /\ \A j \in 1..Len(queue) : queue[j] # up

\* the label the calculator must give for a unit token
LabelOf(unit) ==
  IF toLowerCase(unit) \in {<<"g">>, <<"k", "g">>} THEN <<"k", "g">> ELSE <<"L">>

\* the rate as a fraction: price / weight, times 1000 for g and ml
RateNum(c) ==
  cleanNumber(c.price).n * cleanNumber(c.weight).d
  * (IF toLowerCase(c.unit) \in {<<"g">>, <<"m", "l">>} THEN 1000 ELSE 1)
RateDen(c) == cleanNumber(c.weight).n * cleanNumber(c.price).d

\* the text writes "~", a decimal with exactly two decimals that is the rate
\* rounded to hundredths, " / " and the label
WritesRate(out, c) ==
  LET dot == CHOOSE i \in 1..Len(out) : out[i] = "."
      h == DigitsValue(out, 2, dot) * 100 + DigitsValue(out, dot + 1, dot + 3)
      lab == LabelOf(c.unit)
  IN /\ out[1] = "~"
     /\ \E i \in 1..Len(out) : out[i] = "."
     /\ dot > 2
     /\ \A i \in 2..(dot - 1) : out[i] \in Digits
     /\ (dot > 3 => out[2] # "0")
     /\ Len(out) = dot + 2 + 3 + Len(lab)
     /\ out[dot + 1] \in Digits /\ out[dot + 2] \in Digits
     /\ SubSeq(out, dot + 3, dot + 5) = <<" ", "/", " ">>
     /\ SubSeq(out, dot + 6, Len(out)) = lab
     /\ 2 * (100 * RateNum(c) - h * RateDen(c)) <= RateDen(c)
     /\ 2 * (h * RateDen(c) - 100 * RateNum(c)) <= RateDen(c)

Example(p, w, u, out) ==
  (calc.price = p /\ calc.weight = w /\ calc.unit = u /\ calc.out # <<>>)
    => calc.out = out

\* C10: the calculator gives p / w * 1000 per kg for g and per L for ml, p / w
\* per kg for kg and per L for l, the unit in any case of letters, written as
\* "~", the rate with exactly two decimals, " / " and the label.
C10_UnitConversion ==
  /\ calc.out # <<>> => WritesRate(calc.out, calc)
  /\ Example(<<"9", "9">>, <<"5", "0", "0">>, <<"g">>,
             <<"~", "1", "9", "8", ".", "0", "0", " ", "/", " ", "k", "g">>)
  /\ Example(<<"3", "6">>, <<"8", "0", "0">>, <<"g">>,
             <<"~", "4", "5", ".", "0", "0", " ", "/", " ", "k", "g">>)
  /\ Example(<<"2", "0">>, <<"2">>, <<"l">>,
             <<"~", "1", "0", ".", "0", "0", " ", "/", " ", "L">>)
  /\ Example(<<"1", "5", ",", "5">>, <<"2", "5", "0">>, <<"m", "l">>,
             <<"~", "6", "2", ".", "0", "0", " ", "/", " ", "L">>)

\* C10's case: 15,5 for 250 ml was converted
C10_Witness ==
  /\ calc.price = <<"1", "5", ",", "5">>
  /\ calc.weight = <<"2", "5", "0">>
  /\ calc.unit = <<"M", "L">>
  /\ calc.out = <<"~", "6", "2", ".", "0", "0", " ", "/", " ", "L">>

\* the batch the observer's callback gets is not one the filter suppresses
Unsuppressed == \A i \in 1..Len(pending) : ~IsOrHoldsAnnotation(pending[i])

\* C11: at most one timer is pending; an unsuppressed notification cancels the
\* pending timer and leaves its own as the only one; a pass starts only by
\* using up that one timer, and when it has finished the coordinator is idle
\* with no timer pending: a burst of notifications gives exactly one pass.
C11_Debounce ==
  [][/\ Cardinality(timers) <= 1
     /\ Cardinality(timers') <= 1
     /\ (AtDelivery /\ Unsuppressed) =>
          /\ processingTimeout' \notin timers \cup {processingTimeout}
          /\ timers' = {processingTimeout'}
     /\ (pc = "idle" /\ pc' = "pass") => (timers # {} /\ timers' = {})
     /\ (pc = "pass" /\ pc' = "idle") => (timers' = {} /\ ~isProcessing')]_vars

\* C11's case: two notifications came one after the other before a timer
\* fired; one pass ran after them and nothing is pending
C11_Witness ==
  /\ pc = "idle"
  /\ passes = 2
  /\ processingTimeout = 2
  /\ timers = {}
  /\ pending = <<>>
  /\ adds = 2

\* a timer fires: it leaves the set of pending timers and no other one is set
TimerFires == timers' # timers /\ timers' \subseteq timers

\* C12: the in-progress flag is set only while a pass is active, so it is
\* false whenever a pass has finished; every timer that fires finds it false
\* and starts a pass, the only one active.
C12_MutualExclusion ==
  [][/\ isProcessing => pc = "pass"
     /\ isProcessing' => pc' = "pass"
     /\ TimerFires => (~isProcessing /\ pc = "idle" /\ pc' = "pass" /\ isProcessing')]_vars

\* C12's case: a pass started by a timer has finished and a later timer has
\* fired and started the next pass
C12_Witness ==
  /\ pc = "pass"
  /\ isProcessing
  /\ passes = 2
  /\ processingTimeout = 2
  /\ timers = {}

\* C13: the script only ever sets the marker: an element that carries it in
\* one state carries it in every later state.
C13_MarkerMonotone == [][processed \subseteq processed']_vars

\* C13's case: a later pass has marked a second price element and container,
\* and the ones an earlier pass marked still carry the marker
C13_Witness ==
  \E a, b \in Nodes :
    /\ node[a].src # Null /\ node[b].src # Null
    /\ \E x \in Nodes : a < x /\ x < b /\ node[x].src = Null
    /\ \E i, j \in 1..Len(blocks) :
         /\ i < j
         /\ blocks[i].elPrice = node[a].src
         /\ blocks[j].elPrice = node[b].src
         /\ {blocks[i].elPrice, blocks[i].container, blocks[j].elPrice,
             blocks[j].container} \subseteq processed
         /\ Cardinality({blocks[i].elPrice, blocks[i].container, blocks[j].elPrice,
                         blocks[j].container}) = 4

\* nothing is left to do: no pass runs, no timer is set, no record is queued
Quiescent == pc = "idle" /\ timers = {} /\ pending = <<>>

\* the passes that have run, run or are scheduled
PassesCaused == passes + (IF pc = "pass" THEN 1 ELSE 0) + Cardinality(timers)

\* C14: once the page stops adding nodes the script comes to rest for good,
\* with no timer set and no pass running; and every pass after the initial
\* run is accounted for by an addition of the page, none by the script's own
\* insertions.
C14_NoFeedbackLoop == (<>[]Quiescent) /\ [](PassesCaused <= 1 + adds)

\* C14's case: a pass started by a timer inserted an annotation, the record of
\* it was delivered and the script is at rest
C14_Witness ==
  /\ Quiescent
  /\ passes >= 2
  /\ adds >= 1
  /\ batch.self
  /\ batch.nodes # <<>>
  /\ \A i \in 1..Len(batch.nodes) : node[batch.nodes[i]].src # Null
  /\ PassesCaused = passes

\* the insertion for the price element e failed: a block was handed over for
\* it, the injector got as far as the insertion, and e has no annotation
FailedBefore(e) ==
  /\ \E i \in 1..Len(blocks) : blocks[i].elPrice = e
  /\ AnnotationsOf(e) = {}
  /\ ~tooHigh(e)
  /\ ~alreadyAppended(e)

\* C15: when the insertion for a candidate fails the pass goes on with the
\* next candidate, the price element and its container carry the marker, and
\* nothing is inserted; the pass ends with the flag cleared; and a price
\* element whose insertion failed is left alone by every later callback.
C15_InsertionFailureLocal ==
  [][/\ (AtCandidate /\ last'.failed) =>
          /\ pc' = "pass" /\ queue' = queue /\ idx' = idx + 1
          /\ queue[idx] \in processed'
          /\ last'.container \in processed'
          /\ node' = node /\ children' = children
     /\ (pc = "pass" /\ pc' = "idle") => ~isProcessing'
     /\ (AtCandidate /\ FailedBefore(queue[idx])) => UNCHANGED <<tree, blocks>>]_vars

\* C15's case: the insertion for one candidate failed, a candidate after it
\* was annotated, and a later pass has skipped the first
C15_Witness ==
  /\ passes >= 1
  /\ last.kind = "skipped"
  /\ FailedBefore(last.el)
  /\ last.el \in processed
  /\ \E i \in 1..Len(blocks) :
       /\ blocks[i].elPrice = last.el
       /\ blocks[i].container \in processed
       /\ i < Len(blocks)
       /\ AnnotationsOf(blocks[i + 1].elPrice) # {}

\* the descendants of c whose text holds a weight, in document order
WeightTexts(c) ==
  LET HoldsWeight(d) == PatternIn(textContent(d), WeightUnits)
  IN SelectSeq(querySelectorAll(c), HoldsWeight)

\* the number the weight pattern captures in the text of d
WeightOf(d) == cleanNumber(match(textContent(d), WEIGHT_REGEX).num)

\* the number the price pattern captures in the text of el
PriceOf(el) == cleanNumber(match(textContent(el), PRICE_REGEX).num)

\* the level c validates for el: its first weight text gives a valid pair
ValidAt(el, c) ==
  /\ WeightTexts(c) # <<>>
  /\ Positive(PriceOf(el))
  /\ Positive(WeightOf(WeightTexts(c)[1]))

\* a weight text of c after the first one would give a valid pair
LaterValid(el, c) ==
  /\ Positive(PriceOf(el))
  /\ \E i \in 2..Len(WeightTexts(c)) : Positive(WeightOf(WeightTexts(c)[i]))

\* C16: the container of a new ProductBlock is the level closest to the
\* candidate at which the first descendant with a weight text gives a valid
\* pair, and the block carries that first descendant's weight; later
\* descendants of a level decide nothing.
C16_NarrowestFirstMatch ==
  [][blocks' # blocks =>
       LET b == blocks'[Len(blocks')]
           e == b.elPrice
       IN /\ e = queue[idx]
          /\ \E k \in Levels(e) :
               /\ b.container = Anc(e, k)
               /\ b.level = k
               /\ ValidAt(e, Anc(e, k))
               /\ b.weightValue = WeightOf(WeightTexts(Anc(e, k))[1])
               /\ \A j \in 0..(k - 1) : ~ValidAt(e, Anc(e, j))]_vars

\* C16's case: the first weight of the card is 0 and a weight after it is
\* valid; the card was passed over and the block was built one level up
C16_Witness ==
  /\ last.kind = "found"
  /\ last.level = 2
  /\ last.inserted
  /\ \E i \in 1..Len(blocks) :
       LET e == blocks[i].elPrice
           card == parentElement(e)
       IN /\ e = last.el
          /\ blocks[i].container = parentElement(card)
          /\ WeightTexts(card) # <<>>
          /\ ~Positive(WeightOf(WeightTexts(card)[1]))
          /\ \E j \in 2..Len(WeightTexts(card)) :
               /\ Positive(WeightOf(WeightTexts(card)[j]))
               /\ WeightTexts(card)[j] < AnnotationsOfMin(e)

\* C17: the walk of a candidate examines the candidate and at most its 7
\* nearest proper ancestors: the level it stops at is at most 7, a container
\* or a marked element it stops at is among these 8 elements, and when none
\* of the 8 is marked or validates the callback changes nothing, whatever is
\* marked or would validate further up.
C17_WalkBound ==
  [][AtCandidate =>
       LET e == queue[idx]
       IN /\ last'.level <= 7
          /\ last'.kind \in {"found", "aborted"} =>
               \E k \in 0..7 : Anc(e, k) # Null /\ last'.container = Anc(e, k)
          /\ (\A k \in 0..7 :
                Anc(e, k) # Null =>
                  (Anc(e, k) \notin processed /\ ~ValidAt(e, Anc(e, k))))
             => (last'.kind = "none" /\ UNCHANGED <<tree, blocks>>)]_vars

\* C17's case: the element 8 parent steps above the candidate is marked and
\* would validate; the walk ended below it with nothing found
C17_Witness ==
  /\ last.kind = "none"
  /\ Anc(last.el, 8) # Null
  /\ Anc(last.el, 8) \in processed
  /\ ValidAt(last.el, Anc(last.el, 8))
  /\ last.el \notin processed

Letters ==
  {"a", "b", "c", "d", "e", "f", "g", "h", "i", "j", "k", "l", "m", "n", "o", "p", "q",
   "r", "s", "t", "u", "v", "w", "x", "y", "z"}

\* s holds a numeric literal, whitespace (at least one character of it when
\* space is TRUE) and a token of units that is not the beginning of a longer word
WordIn(s, units, space) ==
  \E i \in 1..Len(s) :
    /\ s[i] \in Digits
    /\ \E k \in (i + 1)..Len(s) :
         /\ \A j \in (i + 1)..(k - 1) : IsSpace(s[j])
         /\ space => k >= i + 2
         /\ \E u \in units :
              /\ k + Len(u) - 1 <= Len(s)
              /\ \A x \in 1..Len(u) : Lower(s[k + x - 1]) = u[x]
              /\ k + Len(u) <= Len(s) => Lower(s[k + Len(u)]) \notin Letters

\* C18 as stated: the patterns match a text only where the unit or currency
\* token ends a word, and the weight pattern only with whitespace between the
\* number and the unit.
C18_WordBoundary ==
  \A n \in Nodes :
    Elem(n) =>
      /\ match(textContent(n), WEIGHT_REGEX).found
           => WordIn(textContent(n), WeightUnits, TRUE)
      /\ match(textContent(n), PRICE_REGEX).found
           => WordIn(textContent(n), PriceUnits, FALSE)

\* the same for the ProductBlocks alone: what the script writes on the page
\* rests on a text the claim says does not match
C18_NoBlockFromLongerWord ==
  \A i \in 1..Len(blocks) :
    /\ WordIn(textContent(blocks[i].elPrice), PriceUnits, FALSE)
    /\ \E d \in Range(querySelectorAll(blocks[i].container)) :
         WordIn(textContent(d), WeightUnits, TRUE)

\* no level of the walk of e gives a validated pair: e is marked, or every
\* level that validates lies at or above a marked one
Unproductive(e) ==
  \/ e \in processed
  \/ \A k \in Levels(e) :
       \/ \E j \in 0..k : Anc(e, j) \in processed
       \/ ~ValidAt(e, Anc(e, k))

\* e was on the page before the script ran
InitialNode(e) ==
  e <= Len(node) - adds - Cardinality({a \in Nodes : node[a].src # Null})

\* C19: the callback for a candidate that resolves to no validated pair sets
\* no marker and inserts nothing, so a pass of such candidates leaves the
\* tree as it was; and every pass evaluates every leaf candidate anew,
\* whatever earlier passes made of it.
C19_UnproductiveFrame ==
  [][/\ (AtCandidate /\ Unproductive(queue[idx])) =>
          (UNCHANGED <<tree, blocks>> /\ pc' = "pass" /\ idx' = idx + 1)
     /\ (pc # "pass" /\ pc' = "pass") =>
          (UNCHANGED tree /\ queue' = SelectSeq(allElements, LeafCandidate))]_vars

\* C19's case: a price with no valid weight in reach, unmarked after the
\* initial run, has been evaluated again by a later pass and is unmarked still
C19_Witness ==
  /\ passes >= 1
  /\ pc = "pass"
  /\ idx > 1
  /\ last.kind = "none"
  /\ last.el = queue[idx - 1]
  /\ InitialNode(last.el)
  /\ last.el \notin processed
  /\ AnnotationsOf(last.el) = {}
  /\ Unproductive(last.el)

\* the node right after n among its parent's childNodes in kids (0: none)
NextSiblingIn(kids, n) ==
  LET p == parentNode(n)
      i == IndexIn(n, p)
  IN IF i < Len(kids[p]) THEN kids[p][i + 1] ELSE Null

\* C20: an annotation is inserted as the node right after its price element;
\* when it is inserted the price element carries the marker and so does its
\* container, which is the price element or one of its 7 nearest proper
\* ancestors; the container was marked first, the price element second, and
\* the insertion came last.  Every annotation of the script has a marked price
\* element and a block with a marked container.
C20_Provenance ==
  [][/\ Len(node') > Len(node) /\ node'[Len(node')].src # Null =>
          LET a == Len(node')
              e == node'[a].src
              c == last'.container
          IN /\ e = queue[idx]
             /\ NextSiblingIn(children', e) = a
             /\ e \in processed' /\ c \in processed'
             /\ \E k \in 0..7 : c = Anc(e, k)
             /\ e \notin processed /\ c \notin processed
             /\ last'.marked = <<{c}, {e} \ {c}>>
     /\ \A a \in Nodes :
          node[a].src # Null =>
            /\ node[a].src \in processed
            /\ \E i \in 1..Len(blocks) :
                 /\ blocks[i].elPrice = node[a].src
                 /\ blocks[i].container \in processed
                 /\ \E k \in 0..7 : blocks[i].container = Anc(node[a].src, k)]_vars

\* C20's case: an annotation was inserted between its price element and the
\* element that followed it, for a container two levels above the price
C20_Witness ==
  /\ last.inserted
  /\ last.level = 2
  /\ last.marked = <<{last.container}, {last.el}>>
  /\ \E a \in AnnotationsOf(last.el) :
       /\ NextSiblingIn(children, last.el) = a
       /\ NextSiblingIn(children, a) # Null
  /\ {last.el, last.container} \subseteq processed

====
